---- MODULE Spec2Model ----
(***************************************************************************)
(* Alter Life RPG (src/main.py): the player record kept by LifeRPG, the    *)
(* two list boxes of LifeRPGGUI the handlers read their selection from,    *)
(* the data file written by save_data, and the GUI handlers add_habit,     *)
(* complete_habit, delete_habit, add_quest, complete_quest, delete_quest   *)
(* with everything they call (add_xp, level_up, add_stat, save_data,       *)
(* update_display, check_achievements).                                    *)
(*                                                                         *)
(* Left out: the player's name and last_login and the name, description    *)
(* and created_date of habits and quests (written once, only displayed),   *)
(* and all styling.                                                        *)
(***************************************************************************)
EXTENDS Integers, Sequences, FiniteSets, TLC

(* ------------------------------ bounds -------------------------------- *)

\* habits the user keeps at one time
MaxHabits == 1
\* quests (completed ones included) in the list at one time
MaxQuests == 2
\* days that pass after StartDate
MaxDays == 2
\* no completion is started once total_xp has reached this
MaxTotalXp == 60
\* save_data calls that raise OSError during one run of the program
MaxIOErrors == 1

(* ------------------------------ values -------------------------------- *)

\* Python's None; a field that may be None holds <<>> or <<value>>
\* (Habit.last_completed holds None or IsoFormat(date), itself a sequence)
None == <<>>

\* keys of player["stats"], create_new_player
StatKeys == {"strength", "intelligence", "charisma", "vitality", "discipline"}

\* HabitDialog.create: xp_rewards
HabitXp(difficulty) ==
    CASE difficulty = "easy" -> 10
      [] difficulty = "medium" -> 20
      [] difficulty = "hard" -> 30

\* QuestDialog.create: rewards
QuestReward(difficulty) ==
    CASE difficulty = "easy" -> [xp |-> 30, gold |-> 10]
      [] difficulty = "normal" -> [xp |-> 50, gold |-> 20]
      [] difficulty = "hard" -> [xp |-> 100, gold |-> 40]

\* the radio buttons the dialogs are tried with (a subset of the five stats:
\* the handlers treat all five alike)
HabitDialogStats == {"strength"}
HabitDialogDifficulties == {"hard"}
\* <<difficulty, stat>> of the quests created
QuestDialogChoices == {<<"normal", "none">>, <<"hard", "strength">>}

(* ------------------------------ dates --------------------------------- *)

\* the first value of date.today() in a run
StartDate == [year |-> 2023, month |-> 12, day |-> 30]

IsLeap(y) == (y % 4 = 0 /\ y % 100 # 0) \/ y % 400 = 0

DaysInMonth(y, m) ==
    IF m = 2 THEN (IF IsLeap(y) THEN 29 ELSE 28)
    ELSE IF m \in {4, 6, 9, 11} THEN 30 ELSE 31

\* the calendar day after d: what date.today() returns one midnight later
NextDay(d) ==
    IF d.day < DaysInMonth(d.year, d.month) THEN [d EXCEPT !.day = @ + 1]
    ELSE IF d.month < 12 THEN [d EXCEPT !.month = @ + 1, !.day = 1]
    ELSE [year |-> d.year + 1, month |-> 1, day |-> 1]

RECURSIVE DateAfter(_, _)
DateAfter(d, n) == IF n = 0 THEN d ELSE DateAfter(NextDay(d), n - 1)

\* str(date): the ISO text, as the sequence of its three fields
IsoFormat(d) == <<d.year, d.month, d.day>>

\* date.replace(day=k) raises ValueError unless k is a day of d's month
ReplaceDayOk(d, k) == k >= 1 /\ k <= DaysInMonth(d.year, d.month)
ReplaceDay(d, k) == [d EXCEPT !.day = k]

(* --------------------------- LifeRPG ---------------------------------- *)

RECURSIVE ISqrtIn(_, _, _)
\* the largest r in lo..hi with r*r <= n
ISqrtIn(n, lo, hi) ==
    IF lo >= hi THEN lo
    ELSE LET mid == (lo + hi + 1) \div 2
         IN IF mid * mid <= n THEN ISqrtIn(n, mid, hi) ELSE ISqrtIn(n, lo, mid - 1)

\* int(100 * (level ** 1.5)) = floor(sqrt(10000 * level^3)); the float product
\* truncates to this integer for every level the model reaches (100, 282, 519,
\* 800, 1118, ...)
XpForLevel(level) == ISqrtIn(10000 * level * level * level, 0, 100 * level * level)

get_xp_for_next_level(p) == XpForLevel(p.level)

create_new_player ==
    [level |-> 1, xp |-> 0, total_xp |-> 0,
     stats |-> [s \in StatKeys |-> 5],
     habits |-> <<>>, quests |-> <<>>, achievements |-> <<>>, gold |-> 0]

\* level_up that starts the new level with no xp
level_up_reset(p) ==
    LET p1 == [p EXCEPT !.xp = 0]
        p2 == [p1 EXCEPT !.level = @ + 1]
        p3 == [p2 EXCEPT !.gold = @ + p2.level * 10]
    IN [p3 EXCEPT !.stats = [s \in DOMAIN @ |-> @[s] + 1]]

\* level_up that raises the level before it takes the threshold off xp
level_up_level_first(p) ==
    LET p1 == [p EXCEPT !.level = @ + 1]
        p2 == [p1 EXCEPT !.xp = @ - get_xp_for_next_level(p1)]
        p3 == [p2 EXCEPT !.gold = @ + p2.level * 10]
    IN [p3 EXCEPT !.stats = [s \in DOMAIN @ |-> @[s] + 1]]

\* level_up that pays the gold before it raises the level
level_up_gold_first(p) ==
    LET p1 == [p EXCEPT !.xp = @ - get_xp_for_next_level(p)]
        p2 == [p1 EXCEPT !.gold = @ + p1.level * 10]
        p3 == [p2 EXCEPT !.level = @ + 1]
    IN [p3 EXCEPT !.stats = [s \in DOMAIN @ |-> @[s] + 1]]

level_up(p) ==
    LET p1 == [p EXCEPT !.xp = @ - get_xp_for_next_level(p)]
        p2 == [p1 EXCEPT !.level = @ + 1]
        p3 == [p2 EXCEPT !.gold = @ + p2.level * 10]
    IN [p3 EXCEPT !.stats = [s \in DOMAIN @ |-> @[s] + 1]]

\* add_xp without its "Check for level up"
add_xp_only(p, amount) ==
    [p EXCEPT !.xp = @ + amount, !.total_xp = @ + amount]

add_xp(p, amount) ==
    LET p1 == [p EXCEPT !.xp = @ + amount, !.total_xp = @ + amount]
    IN IF p1.xp >= get_xp_for_next_level(p1) THEN level_up(p1) ELSE p1

\* add_stat that creates the entry of a stat it does not know
add_stat_setdefault(p, stat, amount) ==
    [p EXCEPT !.stats = [s \in DOMAIN p.stats \cup {stat} |->
                            (IF s \in DOMAIN p.stats THEN p.stats[s] ELSE 0)
                            + (IF s = stat THEN amount ELSE 0)]]

\* add_stat that ignores its amount
add_stat_one(p, stat, amount) ==
    IF stat \in DOMAIN p.stats THEN [p EXCEPT !.stats[stat] = @ + 1] ELSE p

\* add_stat without its save_data call (the callers below model the save)
add_stat(p, stat, amount) ==
    IF stat \in DOMAIN p.stats THEN [p EXCEPT !.stats[stat] = @ + amount] ELSE p

(* --------------------------- Habit, Quest ----------------------------- *)

\* Habit.__init__ and to_dict
Habit(stat, xp_reward, difficulty) ==
    [stat |-> stat, xp_reward |-> xp_reward, difficulty |-> difficulty,
     streak |-> 0, total_completions |-> 0, last_completed |-> None]

\* Quest.__init__ and to_dict
Quest(xp_reward, gold_reward, stat_reward, difficulty) ==
    [xp_reward |-> xp_reward, gold_reward |-> gold_reward,
     stat_reward |-> stat_reward, difficulty |-> difficulty, completed |-> FALSE]

\* del list[i], i counted from 0
DelAt(seq, i) == [j \in 1..(Len(seq) - 1) |-> IF j <= i THEN seq[j] ELSE seq[j + 1]]

(* --------------------------- LifeRPGGUI ------------------------------- *)

VARIABLES
    player,          \* LifeRPG.player
    today,           \* what date.today() returns now
    habits_listbox,  \* rows of habits_listbox since its last refresh
    quests_listbox,  \* rows of quests_listbox since its last refresh
    data_file,       \* the player record last written by save_data
    io_errors,       \* save_data calls that have raised OSError
    last             \* the handler that ran last: its selection and how it ended

vars == <<player, today, habits_listbox, quests_listbox, data_file, io_errors, last>>

\* rows update_quests_list inserts: the quests not completed
VisibleQuests(quests) == Cardinality({i \in 1..Len(quests) : ~quests[i].completed})

\* the loop without its "if not quest.completed": every quest counts as a row
ScanQuests_every(quests, index, i, visible_index) ==
    IF index + 1 \in i..Len(quests) THEN index ELSE 0

RECURSIVE ScanQuests(_, _, _, _)
\* the loop of complete_quest and delete_quest; i counts from 1 here, the result
\* is real_index, counted from 0, and stays 0 when the loop never breaks
ScanQuests(quests, index, i, visible_index) ==
    IF i > Len(quests) THEN 0
    ELSE IF ~quests[i].completed
         THEN IF visible_index = index THEN i - 1
              ELSE ScanQuests(quests, index, i + 1, visible_index + 1)
         ELSE ScanQuests(quests, index, i + 1, visible_index)

RealIndex(quests, index) == ScanQuests(quests, index, 1, 0)

\* the evaluation without its "not in achievements" tests
check_achievements_again(p) ==
    LET a1 == IF Cardinality({i \in 1..Len(p.quests) : p.quests[i].completed}) >= 1
              THEN <<"First Quest Completed">> ELSE <<>>
        a2 == IF p.level >= 5 THEN <<"Reach Level 5">> ELSE <<>>
        a3 == IF p.level >= 10 THEN <<"Reach Level 10">> ELSE <<>>
        a4 == IF \E i \in 1..Len(p.habits) : p.habits[i].streak >= 7
              THEN <<"7 Day Streak">> ELSE <<>>
        a5 == IF p.gold >= 100 THEN <<"Accumulate 100 Gold">> ELSE <<>>
    IN a1 \o a2 \o a3 \o a4 \o a5

\* new_achievements of check_achievements, in the order the code appends them
check_achievements(p) ==
    LET has(a) == \E i \in 1..Len(p.achievements) : p.achievements[i] = a
        a1 == IF /\ Cardinality({i \in 1..Len(p.quests) : p.quests[i].completed}) >= 1
                 /\ ~has("First Quest Completed")
              THEN <<"First Quest Completed">> ELSE <<>>
        a2 == IF p.level >= 5 /\ ~has("Reach Level 5")
              THEN <<"Reach Level 5">> ELSE <<>>
        a3 == IF p.level >= 10 /\ ~has("Reach Level 10")
              THEN <<"Reach Level 10">> ELSE <<>>
        a4 == IF /\ \E i \in 1..Len(p.habits) : p.habits[i].streak >= 7
                 /\ ~has("7 Day Streak")
              THEN <<"7 Day Streak">> ELSE <<>>
        a5 == IF p.gold >= 100 /\ ~has("Accumulate 100 Gold")
              THEN <<"Accumulate 100 Gold">> ELSE <<>>
    IN a1 \o a2 \o a3 \o a4 \o a5

\* how a handler ended: the player and the data file it leaves, whether the
\* level-up notice was shown and whether the list boxes were refreshed
Ended(p, file, outcome, notice, refreshed) ==
    [player |-> p, data_file |-> file, outcome |-> outcome,
     notice |-> notice, refreshed |-> refreshed]

\* the end of complete_habit and complete_quest, from "# Check for level up" on:
\* level_up once more when due, then update_display with check_achievements.
\* saved is the record the handler's save_data wrote just before; the save_data
\* of check_achievements is the handler's save number n and raises when fail = n
FinishCompletion(saved, n, fail) ==
    LET due == saved.xp >= get_xp_for_next_level(saved)
        p5 == IF due THEN level_up(saved) ELSE saved
        new == check_achievements(p5)
        p6 == [p5 EXCEPT !.achievements = @ \o new]
    IN IF new = <<>> THEN Ended(p5, saved, "ok", due, TRUE)
       ELSE IF fail = n THEN Ended(p6, saved, "OSError", due, TRUE)
       ELSE Ended(p6, p6, "ok", due, TRUE)

\* the check with today left a date object: a text never equals it
AlreadyCompletedToday_date(habit, d) == FALSE

\* "if habit.last_completed == today" with today = str(date.today())
AlreadyCompletedToday(habit, d) == habit.last_completed = IsoFormat(d)

\* the streak bonus paid once, whatever the streak
HabitXpReward_flat(habit) == habit.xp_reward + 5

\* "Calculate rewards with streak bonus", from the habit with its streak updated
HabitXpReward(habit) == habit.xp_reward + (habit.streak * 5)
HabitGoldReward(habit) == habit.streak * 2

\* complete_habit with row index selected on day d; save number fail raises
CompleteHabitRun(p, file, index, d, fail) ==
    IF index >= Len(p.habits) THEN Ended(p, file, "IndexError", FALSE, FALSE)
    ELSE
    LET habit == p.habits[index + 1]
    IN IF AlreadyCompletedToday(habit, d)
       THEN Ended(p, file, "AlreadyCompletedToday", FALSE, FALSE)
       ELSE IF ~ReplaceDayOk(d, d.day - 1)
       THEN Ended(p, file, "ValueError", FALSE, FALSE)
       ELSE
       LET yesterday == IsoFormat(ReplaceDay(d, d.day - 1))
           streak == IF habit.last_completed = yesterday THEN habit.streak + 1 ELSE 1
           done == [habit EXCEPT !.streak = streak,
                                 !.last_completed = IsoFormat(d),
                                 !.total_completions = @ + 1]
           xp_reward == HabitXpReward(done)
           gold_reward == HabitGoldReward(done)
           p1 == add_xp(p, xp_reward)
           p2 == add_stat(p1, done.stat, 1)
           p3 == [p2 EXCEPT !.gold = @ + gold_reward]
           p4 == [p3 EXCEPT !.habits[index + 1] = done]
       IN IF fail = 1 THEN Ended(p2, file, "OSError", FALSE, FALSE)
          ELSE IF fail = 2 THEN Ended(p4, p2, "OSError", FALSE, FALSE)
          ELSE FinishCompletion(p4, 3, fail)

\* complete_quest with row index selected; save number fail raises
CompleteQuestRun(p, file, index, fail) ==
    LET real_index == RealIndex(p.quests, index)
    IN IF real_index >= Len(p.quests) THEN Ended(p, file, "IndexError", FALSE, FALSE)
       ELSE
       LET quest == p.quests[real_index + 1]
           done == [quest EXCEPT !.completed = TRUE]
           p1 == add_xp(p, done.xp_reward)
           p2 == [p1 EXCEPT !.gold = @ + done.gold_reward]
           stat == done.stat_reward # None
           p3 == IF stat THEN add_stat(p2, done.stat_reward[1], 2) ELSE p2
           file3 == IF stat THEN p3 ELSE file
           n == IF stat THEN 2 ELSE 1
           p4 == [p3 EXCEPT !.quests[real_index + 1] = done]
       IN IF stat /\ fail = 1 THEN Ended(p3, file, "OSError", FALSE, FALSE)
          ELSE IF fail = n THEN Ended(p4, file3, "OSError", FALSE, FALSE)
          ELSE FinishCompletion(p4, n + 1, fail)

\* the dialogs' result: "none" among the stat radio buttons gives None
DialogStat(choice) == IF choice = "none" THEN None ELSE <<choice>>

\* add_habit / add_quest after the dialog returned a result: append, save_data,
\* refresh the list box
AppendRun(p, file, field, item, fail) ==
    LET p1 == [p EXCEPT ![field] = Append(@, item)]
    IN IF fail = 1 THEN Ended(p1, file, "OSError", FALSE, FALSE)
       ELSE Ended(p1, p1, "ok", FALSE, TRUE)

\* delete_habit / delete_quest after the confirmation: del, save_data, refresh
DeleteRun(p, file, field, i, fail) ==
    IF i >= Len(p[field]) THEN Ended(p, file, "IndexError", FALSE, FALSE)
    ELSE LET p1 == [p EXCEPT ![field] = DelAt(@, i)]
         IN IF fail = 1 THEN Ended(p1, file, "OSError", FALSE, FALSE)
            ELSE Ended(p1, p1, "ok", FALSE, TRUE)

\* a handler's run r takes effect; all says whether update_display refreshed
\* both list boxes or only the handler's own (box) was refreshed
Takes(r, op, index, box, all) ==
    /\ player' = r.player
    /\ data_file' = r.data_file
    /\ io_errors' = io_errors + (IF r.outcome = "OSError" THEN 1 ELSE 0)
    /\ habits_listbox' = IF r.refreshed /\ (all \/ box = "habits")
                         THEN Len(r.player.habits) ELSE habits_listbox
    /\ quests_listbox' = IF r.refreshed /\ (all \/ box = "quests")
                         THEN VisibleQuests(r.player.quests) ELSE quests_listbox
    /\ last' = [op |-> op, index |-> index, outcome |-> r.outcome, notice |-> r.notice]
    /\ UNCHANGED today

\* the save_data calls that may raise in a handler making at most n of them
Fails(n) == IF io_errors < MaxIOErrors THEN 0..n ELSE {0}

Init ==
    /\ player = create_new_player
    /\ today = StartDate
    /\ habits_listbox = 0
    /\ quests_listbox = 0
    /\ data_file = create_new_player
    /\ io_errors = 0
    /\ last = [op |-> "init", index |-> 0, outcome |-> "ok", notice |-> FALSE]

add_habit ==
    /\ Len(player.habits) < MaxHabits
    /\ \E stat \in HabitDialogStats, difficulty \in HabitDialogDifficulties, fail \in Fails(1) :
          Takes(AppendRun(player, data_file, "habits",
                          Habit(stat, HabitXp(difficulty), difficulty), fail),
                "add_habit", 0, "habits", FALSE)

complete_habit ==
    /\ player.total_xp < MaxTotalXp
    /\ \E index \in 0..(habits_listbox - 1), fail \in Fails(3) :
          Takes(CompleteHabitRun(player, data_file, index, today, fail),
                "complete_habit", index, "habits", TRUE)

delete_habit ==
    \E index \in 0..(habits_listbox - 1), fail \in Fails(1) :
        Takes(DeleteRun(player, data_file, "habits", index, fail),
              "delete_habit", index, "habits", FALSE)

add_quest ==
    /\ Len(player.quests) < MaxQuests
    /\ \E choice \in QuestDialogChoices, fail \in Fails(1) :
          Takes(AppendRun(player, data_file, "quests",
                          Quest(QuestReward(choice[1]).xp, QuestReward(choice[1]).gold,
                                DialogStat(choice[2]), choice[1]), fail),
                "add_quest", 0, "quests", FALSE)

complete_quest ==
    /\ player.total_xp < MaxTotalXp
    /\ \E index \in 0..(quests_listbox - 1), fail \in Fails(3) :
          Takes(CompleteQuestRun(player, data_file, index, fail),
                "complete_quest", index, "quests", TRUE)

delete_quest ==
    \E index \in 0..(quests_listbox - 1), fail \in Fails(1) :
        Takes(DeleteRun(player, data_file, "quests",
                        RealIndex(player.quests, index), fail),
              "delete_quest", index, "quests", FALSE)

\* midnight passes
Tick ==
    /\ \E n \in 0..(MaxDays - 1) : today = DateAfter(StartDate, n)
    /\ today' = NextDay(today)
    /\ last' = [op |-> "tick", index |-> 0, outcome |-> "ok", notice |-> FALSE]
    /\ UNCHANGED <<player, habits_listbox, quests_listbox, data_file, io_errors>>

Next ==
    \/ add_habit
    \/ complete_habit
    \/ delete_habit
    \/ add_quest
    \/ complete_quest
    \/ delete_quest
    \/ Tick

Spec == Init /\ [][Next]_vars

(* ------------------- LifeRPG.add_xp called on its own ------------------ *)

\* the amounts add_xp is called with
LedgerAmounts == {10, 40, 50, 100, 400}
\* add_xp is not called once this level is reached
MaxLedgerLevel == 4

add_xp_call ==
    /\ player.level < MaxLedgerLevel
    /\ \E amount \in LedgerAmounts :
          /\ player' = add_xp(player, amount)
          /\ last' = [op |-> "add_xp", index |-> amount, outcome |-> "ok", notice |-> FALSE]
    /\ UNCHANGED <<today, habits_listbox, quests_listbox, data_file, io_errors>>

\* the stats add_stat is called with: one of the player's and one that is not
LedgerStats == {"strength", "luck"}
\* the amounts of complete_habit's and complete_quest's add_stat calls
LedgerStatAmounts == {1, 2}
\* add_stat is not called on a stat that has reached this value
MaxLedgerStat == 6

\* add_stat with its save_data, which runs only inside the "if stat in stats"
\* and raises when fail = 1
AddStatRun(p, file, stat, amount, fail) ==
    LET p1 == add_stat(p, stat, amount)
    IN IF stat \notin DOMAIN p.stats THEN Ended(p1, file, "ok", FALSE, FALSE)
       ELSE IF fail = 1 THEN Ended(p1, file, "OSError", FALSE, FALSE)
       ELSE Ended(p1, p1, "ok", FALSE, FALSE)

add_stat_call ==
    \E stat \in LedgerStats, amount \in LedgerStatAmounts, fail \in Fails(1) :
        /\ stat \in DOMAIN player.stats => player.stats[stat] < MaxLedgerStat
        /\ LET r == AddStatRun(player, data_file, stat, amount, fail)
           IN /\ player' = r.player
              /\ data_file' = r.data_file
              /\ io_errors' = io_errors + (IF r.outcome = "OSError" THEN 1 ELSE 0)
              /\ last' = [op |-> "add_stat", index |-> amount, stat |-> stat,
                          outcome |-> r.outcome, notice |-> FALSE]
        /\ UNCHANGED <<today, habits_listbox, quests_listbox>>

LedgerNext == add_xp_call \/ add_stat_call

SpecLedger == Init /\ [][LedgerNext]_vars

(* ------------------------------ claims -------------------------------- *)

\* the calendar day before d
PrevDay(d) ==
    IF d.day > 1 THEN [d EXCEPT !.day = @ - 1]
    ELSE IF d.month > 1
         THEN [d EXCEPT !.month = @ - 1, !.day = DaysInMonth(d.year, d.month - 1)]
         ELSE [year |-> d.year - 1, month |-> 12, day |-> 31]

RECURSIVE ThresholdSum(_, _)
\* the thresholds of the levels a..b-1
ThresholdSum(a, b) == IF a >= b THEN 0 ELSE XpForLevel(a) + ThresholdSum(a + 1, b)

RECURSIVE LevelGold(_, _)
\* the level-up gold of the levels a+1..b
LevelGold(a, b) == IF a >= b THEN 0 ELSE (a + 1) * 10 + LevelGold(a + 1, b)

\* the step is a run of handler op that save_data did not interrupt
Ran(op) == last'.op = op /\ last'.outcome # "OSError"

\* C1: completing a habit the day after its last completion succeeds with
\* streak + 1, on every date, the first of a month included; a first completion
\* or one after a gap of two days or more succeeds with streak 1
C1_StreakRule ==
    [][(Ran("complete_habit") /\ last'.index < Len(player.habits)) =>
        LET i == last'.index + 1
            habit == player.habits[i]
        IN /\ habit.last_completed = IsoFormat(PrevDay(today)) =>
                /\ last'.outcome = "ok"
                /\ player'.habits[i].streak = habit.streak + 1
           /\ (habit.last_completed \notin {IsoFormat(PrevDay(today)), IsoFormat(today)}) =>
                /\ last'.outcome = "ok"
                /\ player'.habits[i].streak = 1
      ]_vars

\* C2: completing a habit whose last_completed is today ends with the
\* "already completed" notice and changes nothing of the player or the file
C2_AlreadyCompletedNoChange ==
    [][(last'.op = "complete_habit" /\ last'.index < Len(player.habits)
        /\ player.habits[last'.index + 1].last_completed = IsoFormat(today)) =>
        /\ last'.outcome = "AlreadyCompletedToday"
        /\ player' = player
        /\ data_file' = data_file
      ]_vars

C2_Witness ==
    /\ last.op = "complete_habit"
    /\ last.outcome = "AlreadyCompletedToday"
    /\ player.habits[last.index + 1].last_completed = IsoFormat(today)
    /\ player.habits[last.index + 1].total_completions = 1
    /\ player.total_xp = 35

\* C3: one add_xp call that brings xp to the sum of two thresholds or more makes
\* every level-up due: the level rises by two or more, each level-up pays its
\* gold and +1 on every stat, and xp ends below the threshold of the new level
C3_EveryDueLevelUp ==
    [][last'.op = "add_xp" =>
        LET e == player.xp + last'.index
            L == player.level
        IN e >= XpForLevel(L) + XpForLevel(L + 1) =>
            /\ player'.level >= L + 2
            /\ player'.xp < XpForLevel(player'.level)
            /\ player'.gold = player.gold + LevelGold(L, player'.level)
            /\ \A s \in StatKeys :
                  player'.stats[s] = player.stats[s] + (player'.level - L)
      ]_vars

\* C4: after every handler, 0 <= xp < the threshold of the level, and level >= 1
C4_XpBelowThreshold ==
    /\ player.level >= 1
    /\ player.xp >= 0
    /\ player.xp < XpForLevel(player.level)

C4_Witness ==
    /\ last.op = "complete_quest"
    /\ last.outcome = "ok"
    /\ player.level = 2
    /\ player.total_xp = 100
    /\ player.xp = 0

\* C5: add_xp bringing xp to e with threshold(L) <= e < threshold(L) +
\* threshold(L+1) makes exactly one level-up: level L+1, xp e - threshold(L),
\* (L+1)*10 gold, +1 on each of the five stats
C5_SingleLevelUp ==
    [][last'.op = "add_xp" =>
        LET e == player.xp + last'.index
            L == player.level
        IN (e >= XpForLevel(L) /\ e < XpForLevel(L) + XpForLevel(L + 1)) =>
            /\ player'.level = L + 1
            /\ player'.xp = e - XpForLevel(L)
            /\ player'.total_xp = player.total_xp + last'.index
            /\ player'.gold = player.gold + (L + 1) * 10
            /\ \A s \in StatKeys : player'.stats[s] = player.stats[s] + 1
      ]_vars

\* level 1 with xp 90, then 50 more: level 2, xp 40, 20 gold
C5_Witness ==
    /\ last.op = "add_xp"
    /\ last.index = 50
    /\ player.total_xp = 140
    /\ player.level = 2
    /\ player.xp = 40
    /\ player.gold = 20
    /\ \A s \in StatKeys : player.stats[s] = 6

\* the levels gained in the step
Gained == player'.level - player.level

\* C6: complete_quest never pays the rewards of a quest that is already
\* completed, and no quest goes from completed back to not completed
C6_RewardsAtMostOnce ==
    [][/\ (last'.op = "complete_quest" /\ player'.total_xp > player.total_xp) =>
            ~player.quests[RealIndex(player.quests, last'.index) + 1].completed
       /\ last'.op # "delete_quest" =>
            \A i \in 1..Len(player.quests) :
                player.quests[i].completed =>
                    i <= Len(player'.quests) /\ player'.quests[i].completed
      ]_vars

\* C7: complete_quest and delete_quest with a row index that is not below the
\* number of quests not completed fail with IndexError and change nothing
C7_IndexOutOfRange ==
    [][(/\ last'.op \in {"complete_quest", "delete_quest"}
        /\ last'.index >= VisibleQuests(player.quests)) =>
        /\ last'.outcome = "IndexError"
        /\ player' = player
      ]_vars

\* C8: a habit completion that ran to its end, with resulting streak s, sets
\* last_completed to today, adds 1 to total_completions, xp_reward + 5*s to xp
\* and total_xp, 2*s to gold and 1 to the habit's stat, level-up bonuses apart
C8_HabitRewards ==
    [][(last'.op = "complete_habit" /\ last'.outcome = "ok") =>
        LET i == last'.index + 1
            habit == player.habits[i]
            done == player'.habits[i]
            s == done.streak
        IN /\ done = [habit EXCEPT !.streak = s,
                                   !.last_completed = IsoFormat(today),
                                   !.total_completions = @ + 1]
           /\ s >= 1
           /\ player'.total_xp = player.total_xp + habit.xp_reward + 5 * s
           /\ player'.xp = player.xp + habit.xp_reward + 5 * s
                           - ThresholdSum(player.level, player'.level)
           /\ player'.gold = player.gold + 2 * s + LevelGold(player.level, player'.level)
           /\ \A st \in StatKeys :
                 player'.stats[st] = player.stats[st] + Gained
                                     + (IF st = habit.stat THEN 1 ELSE 0)
      ]_vars

\* a hard habit on two days running: 35 xp and 2 gold, then 40 xp and 4 gold
C8_Witness ==
    /\ last.op = "complete_habit"
    /\ last.outcome = "ok"
    /\ player.habits[last.index + 1].xp_reward = 30
    /\ player.habits[last.index + 1].streak = 2
    /\ player.habits[last.index + 1].total_completions = 2
    /\ player.habits[last.index + 1].last_completed = IsoFormat(today)
    /\ player.total_xp = 75
    /\ player.xp = 75
    /\ player.gold = 6
    /\ player.stats["strength"] = 7

\* C9: a quest completion that ran to its end marks that quest completed, adds
\* its xp_reward to xp and total_xp and its gold_reward to gold, adds 2 to the
\* stat_reward stat if there is one, and, level-up bonuses apart, leaves the
\* habits, the other quests and the quest's other fields as they were
C9_QuestRewards ==
    [][(last'.op = "complete_quest" /\ last'.outcome = "ok") =>
        LET r == RealIndex(player.quests, last'.index) + 1
            quest == player.quests[r]
        IN /\ player'.quests = [player.quests EXCEPT ![r].completed = TRUE]
           /\ player'.habits = player.habits
           /\ player'.total_xp = player.total_xp + quest.xp_reward
           /\ player'.xp = player.xp + quest.xp_reward
                           - ThresholdSum(player.level, player'.level)
           /\ player'.gold = player.gold + quest.gold_reward
                             + LevelGold(player.level, player'.level)
           /\ \A st \in StatKeys :
                 player'.stats[st] = player.stats[st] + Gained
                                     + (IF quest.stat_reward = <<st>> THEN 2 ELSE 0)
      ]_vars

\* a normal quest without stat, then a hard quest rewarding strength
C9_Witness ==
    /\ last.op = "complete_quest"
    /\ last.outcome = "ok"
    /\ Len(player.quests) = 2
    /\ player.quests[1].completed /\ player.quests[1].stat_reward = None
    /\ player.quests[2].completed /\ player.quests[2].stat_reward = <<"strength">>
    /\ player.total_xp = 150
    /\ player.level = 2
    /\ player.xp = 50
    /\ player.gold = 80
    /\ player.stats["strength"] = 8
    /\ player.stats["charisma"] = 6

\* the achievement is in player["achievements"]
Unlocked(a) == \E i \in 1..Len(player.achievements) : player.achievements[i] = a

\* C10: once a handler has returned, every achievement whose condition holds
\* is unlocked
C10_AchievementsUnlocked ==
    (/\ last.op \in {"add_habit", "complete_habit", "delete_habit",
                     "add_quest", "complete_quest", "delete_quest"}
     /\ last.outcome \in {"ok", "AlreadyCompletedToday"}) =>
        /\ (\E i \in 1..Len(player.quests) : player.quests[i].completed) =>
                Unlocked("First Quest Completed")
        /\ player.level >= 5 => Unlocked("Reach Level 5")
        /\ player.level >= 10 => Unlocked("Reach Level 10")
        /\ (\E i \in 1..Len(player.habits) : player.habits[i].streak >= 7) =>
                Unlocked("7 Day Streak")
        /\ player.gold >= 100 => Unlocked("Accumulate 100 Gold")

\* the handler ran to its end, update_display and check_achievements included
Completed(op) == last.op = op /\ last.outcome = "ok"

\* C11: no achievement occurs twice in player["achievements"], and once a
\* completion has evaluated the achievements, evaluating them again on the
\* same player unlocks nothing
C11_AchievementsIdempotent ==
    /\ \A i, j \in 1..Len(player.achievements) :
            i # j => player.achievements[i] # player.achievements[j]
    /\ (Completed("complete_habit") \/ Completed("complete_quest")) =>
            check_achievements(player) = <<>>

\* a second quest is completed with "First Quest Completed" already unlocked
C11_Witness ==
    /\ Completed("complete_quest")
    /\ Len(player.quests) = 2
    /\ \A i \in 1..2 : player.quests[i].completed
    /\ player.achievements = <<"First Quest Completed">>

\* C12: a habit or quest completion that fails or aborts part-way (a refused
\* selection, the date computation, a save_data that raises) leaves the player
\* exactly as it was before the call
C12_AllOrNothing ==
    [][(/\ last'.op \in {"complete_habit", "complete_quest"}
        /\ last'.outcome # "ok") => player' = player]_vars

\* C13: a complete_habit or complete_quest call that raises the level shows
\* the level-up notice, and a call that leaves the level unchanged shows none
C13_LevelUpReported ==
    [][(/\ last'.op \in {"complete_habit", "complete_quest"}
        /\ last'.outcome = "ok") =>
            (last'.notice <=> player'.level > player.level)]_vars

NthIncomplete(quests, k) ==
    CHOOSE i \in 1..Len(quests) :
        /\ ~quests[i].completed
        /\ Cardinality({j \in 1..(i - 1) : ~quests[j].completed}) = k

\* C15: with row k below the number of quests not completed, complete_quest
\* and delete_quest act on the quest of that row: complete_quest marks it
\* completed and touches no other quest, delete_quest removes it and keeps the
\* others in their order; the quest acted on is never a completed one
C15_VisibleIndex ==
    [][(/\ last'.op \in {"complete_quest", "delete_quest"}
        /\ last'.index < VisibleQuests(player.quests)) =>
            LET i == NthIncomplete(player.quests, last'.index)
                n == Len(player.quests)
            IN /\ ~player.quests[i].completed
               /\ last'.op = "complete_quest" =>
                     /\ Len(player'.quests) = n
                     /\ \A j \in 1..n : j # i => player'.quests[j] = player.quests[j]
                     /\ last'.outcome = "ok" =>
                            player'.quests[i] = [player.quests[i] EXCEPT !.completed = TRUE]
                     /\ last'.outcome # "ok" =>
                            player'.quests[i] \in {player.quests[i],
                                [player.quests[i] EXCEPT !.completed = TRUE]}
               /\ last'.op = "delete_quest" =>
                     /\ Len(player'.quests) = n - 1
                     /\ \A j \in 1..(n - 1) :
                            player'.quests[j] = player.quests[IF j < i THEN j ELSE j + 1]]_vars

\* row 0 was completed with the quest stored first already completed: within
\* the bounds the hard quest can only be the one completed last
C15_Witness ==
    /\ Completed("complete_quest")
    /\ last.index = 0
    /\ io_errors = 0
    /\ Len(player.quests) = 2
    /\ player.quests[1].difficulty = "normal" /\ player.quests[1].completed
    /\ player.quests[2].difficulty = "hard" /\ player.quests[2].completed
    /\ player.total_xp = 150

\* C16: total_xp is xp plus the thresholds of the levels 1..level-1 in every
\* state reached from the new player, and total_xp never decreases
C16_XpConservation ==
    /\ [](player.total_xp = player.xp + ThresholdSum(1, player.level))
    /\ [][player'.total_xp >= player.total_xp]_vars

\* a level-up has carried xp over: 50 + 100 xp of two quests, level 2
C16_Witness ==
    /\ player.level = 2
    /\ player.xp = 50
    /\ player.total_xp = 150

\* C17: once complete_habit or complete_quest has run to its end, the data
\* file holds the player as it is in memory: nothing is changed after the
\* handler's last save_data and left unsaved
C17_SavedAfterCompletion ==
    (Completed("complete_habit") \/ Completed("complete_quest")) =>
        data_file = player

\* a completion that raised the level and unlocked nothing has returned: the
\* second quest, 50 + 100 xp, with the level of the file at 2
C17_Witness ==
    /\ Completed("complete_quest")
    /\ player.total_xp = 150
    /\ player.achievements = <<"First Quest Completed">>
    /\ data_file.level = 2
    /\ data_file.xp = 50

====
